---- MODULE Spec2Model ----
(***************************************************************************)
(* AwsLambdaFunction (src/unnamed/part_000): the component that decides     *)
(* whether a Lambda function must be deployed or replaced, resolves its     *)
(* execution role, packs its code and drives the provider calls.            *)
(*                                                                          *)
(* JavaScript values are represented as follows.                            *)
(*   undefined (string-valued field)  the string Undef                      *)
(*   undefined role / prevInstance    the records NoRole / NoPrev           *)
(*   undefined arn / zip              the empty sequence / NoZip            *)
(*   this.code                        [array, value]: value is a path when  *)
(*                                    array is FALSE, a sequence of paths   *)
(*                                    when it is TRUE                       *)
(*   an object's own keys             a prior instance carries the set      *)
(*                                    `missing` of normalized keys it does  *)
(*                                    not have (reading one gives Undef)    *)
(***************************************************************************)
EXTENDS Integers, Sequences, FiniteSets, TLC

VARIABLES
  this,          \* the instance: role, functionName, ..., tags, hash, arn, zip
  prevInstance,  \* the prior instance handed to hydrate/shouldDeploy/deploy
  fs,            \* the code directories: versions of their sources and node_modules
  lambda,        \* the provider: the function stored under each name
  calls,         \* the provider calls of the current deploy() or remove()
  pc,            \* "new", "idle", or the await an async method is suspended at
  result,        \* the method last called and what it returned or threw
  roleLog,       \* the calls of context.construct(AwsIamRole, ...)
  edits,         \* number of edits of the code directories so far
  passes,        \* number of times the instance was recorded as the prior one
  cli            \* one invocation of the CLI handler (src/src/cli/index.js)

vars ==
  <<this, prevInstance, fs, lambda, calls, pc, result, roleLog, edits, passes, cli>>

(* ------------------------------ bounds --------------------------------- *)

\* number of input fields in which a constructed spec may differ from BaseInputs
MaxDiff == 1
\* number of edits of the code directories during one run
MaxEdits == 1
\* number of times the role-construction collaborator may be called
MaxRoleConstructs == 2
\* number of positional arguments on the command line
MaxArgs == 2
\* number of times a deployed instance is recorded as the prior instance
MaxPasses == 1

(* ------------------------------ values --------------------------------- *)

Undef == "undefined"

NoRole == [absent |-> TRUE]
NoPrev == [absent |-> TRUE]
NoFn == [absent |-> TRUE]
NoZip == [absent |-> TRUE]
NoArn == <<>>

Names == {"fn-a", "fn-b"}
Dirs == {"dirA", "dirB"}

SingleCode(d) == [array |-> FALSE, value |-> d]
ArrayCode(d, shim) == [array |-> TRUE, value |-> <<d, shim>>]

ConfigKeys ==
  {"functionName", "functionDescription", "handler", "code", "runtime",
   "memorySize", "timeout", "hash", "tags"}

InputFields ==
  {"functionName", "functionDescription", "handler", "code", "runtime",
   "memorySize", "timeout", "environment", "tags"}

BaseInputs ==
  [functionName |-> "fn-a", functionDescription |-> "d1", handler |-> "h1",
   code |-> SingleCode("dirA"), runtime |-> "nodejs8.10", memorySize |-> 512,
   timeout |-> 30, environment |-> "env1", tags |-> "t1"]

AllInputs ==
  [functionName : Names,
   functionDescription : {"d1", "d2", Undef},
   handler : {"h1", "h2"},
   code : {SingleCode("dirA"), SingleCode("dirB"), ArrayCode("dirA", "shim.js")},
   runtime : {"nodejs8.10", "python3.6"},
   memorySize : {512, 1024},
   timeout : {30, 60},
   environment : {"env1", "env2"},
   tags : {"t1", "t2", Undef}]

Diff(r, b) == Cardinality({f \in InputFields : r[f] # b[f]})

Variants(k) == {r \in AllInputs : Diff(r, BaseInputs) <= k}

\* identity references: a name and a remote identifier
R1 == [roleName |-> <<"role-1">>, arn |-> "arn:role/1"]
R1Moved == [roleName |-> <<"role-1">>, arn |-> "arn:role/1b"]
R2 == [roleName |-> <<"role-2">>, arn |-> "arn:role/2"]

\* the role define() obtains from context.construct for a function name
ExecutionRoleName(functionName) == <<functionName, "-execution-role">>
ConstructedRole(functionName) ==
  [roleName |-> ExecutionRoleName(functionName), arn |-> "arn:role/constructed"]

InputRoles == {NoRole, R1, R2}

(* --------------------------- collaborators ----------------------------- *)

\* resolve() of @serverless/utils: a plain value resolves to itself
resolve(v) == v

\* isArray(this.code)
isArray(code) == code.array

\* folder-hash hashElement(folder, {folders: {exclude: ['node_modules']}}):
\* a content hash of the folder's name and of its entries outside node_modules
hashElement(folder, files) == <<folder, files[folder].src>>

\* lines 142-149: the folder construct() hashes
folderToHash(code) == IF isArray(code) THEN code.value[1] ELSE code.value

\* packDir(inputDirPath, outputFilePath, shims) followed by readFileSync:
\* the archive holds the directory as it is when packed, and the shims
packDir(inputDirPath, shims, files) ==
  [dir |-> inputDirPath, src |-> files[inputDirPath].src,
   nm |-> files[inputDirPath].nm, shims |-> shims]

\* pick(names, obj): the own keys of obj among names
pick(names, obj) == [k \in {n \in names : n \notin obj.missing} |-> obj[k]]

\* equals(a, b): deep equality of two plain objects
equals(a, b) == DOMAIN a = DOMAIN b /\ \A k \in DOMAIN a : a[k] = b[k]

\* mutant: hydrate finds no arn in the prior instance
getArn_none(prev) == NoArn

\* get('arn', prevInstance)
getArn(prev) == IF prev = NoPrev THEN NoArn ELSE prev.arn

\* lines 200-202: the id of the instance is its arn
getId(t) == t.arn

(* ----------------------------- shouldDeploy ---------------------------- *)

Returned(v) == [status |-> "returned", value |-> v]
Threw(e) == [status |-> "threw", value |-> e]

\* mutant: the environment is compared as well (line 166 not commented out)
currentConfig_withEnvironment(t) ==
  [k \in ConfigKeys \cup {"environment"} |-> resolve(t[k])]

\* mutant: the hash is left out of the compared record
currentConfig_noHash(t) == [k \in ConfigKeys \ {"hash"} |-> resolve(t[k])]

\* lines 158-169
currentConfig(t) == [k \in ConfigKeys |-> resolve(t[k])]

\* line 170
prevConfig(t, prev) ==
  IF prev # NoPrev THEN pick(DOMAIN currentConfig(t), prev) ELSE [k \in {} |-> Undef]

\* mutant: the negation of line 171 is dropped
configChanged_noNot(t, prev) == equals(currentConfig(t), prevConfig(t, prev))

\* line 171
configChanged(t, prev) == ~equals(currentConfig(t), prevConfig(t, prev))

\* mutant: the roles are read whether or not there is a prior instance
roleChangedThrows_unguarded(t, prev) ==
  prev = NoPrev \/ resolve(t.role) = NoRole \/ prev.role = NoRole

\* lines 172-174; reading .roleName of an undefined role is a TypeError
roleChangedThrows(t, prev) ==
  prev # NoPrev /\ (resolve(t.role) = NoRole \/ prev.role = NoRole)

\* mutant: the roles are compared by arn
roleChanged_byArn(t, prev) ==
  IF prev # NoPrev THEN resolve(t.role).arn # prev.role.arn ELSE TRUE

\* lines 172-174
roleChanged(t, prev) ==
  IF prev # NoPrev THEN resolve(t.role).roleName # prev.role.roleName ELSE TRUE

\* lines 176-180
decision(t, prev) ==
  IF prev # NoPrev /\ prev.functionName # currentConfig(t).functionName
  THEN "replace"
  ELSE IF prev = NoPrev \/ configChanged(t, prev) \/ roleChanged(t, prev)
       THEN "deploy"
       ELSE Undef

\* lines 157-181
shouldDeploy(t, prev) ==
  IF roleChangedThrows(t, prev)
  THEN Threw("TypeError")
  ELSE Returned(decision(t, prev))

(* ------------------------------- state --------------------------------- *)

\* the directories before any edit
InitialFs == [d \in Dirs |-> [src |-> 1, nm |-> 1]]

\* FunctionArn the provider assigns to a function name
FunctionArn(functionName) == <<"arn:lambda", functionName>>

\* a prior instance: the fields of an earlier spec built from inputs i when
\* the code directory had content version v, deployed with role r; the keys in
\* m are not recorded
Prev(i, v, m, r) ==
  [functionName |-> i.functionName,
   functionDescription |-> i.functionDescription,
   handler |-> i.handler, code |-> i.code, runtime |-> i.runtime,
   memorySize |-> i.memorySize, timeout |-> i.timeout,
   environment |-> i.environment, tags |-> i.tags,
   hash |-> <<folderToHash(i.code), v>>,
   role |-> r, arn |-> FunctionArn(i.functionName), missing |-> m]

\* the keys whose value is undefined may be missing from the record
MayMiss(i) == {k \in {"functionDescription", "tags"} : i[k] = Undef}

DecidePriors ==
  {NoPrev}
    \cup UNION {{Prev(i, 1, m, R1) : m \in SUBSET MayMiss(i)} : i \in Variants(1)}
    \cup {Prev(BaseInputs, 0, {}, r) : r \in {R1}}
    \cup {Prev(BaseInputs, 1, {}, r) : r \in {R1Moved, R2, NoRole, ConstructedRole("fn-a")}}

\* lines 96-107: the configuration sent with a create or an update
functionConfig(t) ==
  [Description |-> t.functionDescription, Handler |-> t.handler,
   MemorySize |-> t.memorySize, Role |-> t.role.arn, Runtime |-> t.runtime,
   Timeout |-> t.timeout, Environment |-> t.environment]

\* the remote function an earlier deploy of prev left behind
DeployedFn(prev) ==
  [code |-> packDir(folderToHash(prev.code),
                    IF isArray(prev.code) THEN Tail(prev.code.value) ELSE <<>>,
                    [d \in Dirs |-> [src |-> prev.hash[2], nm |-> 1]]),
   config |-> functionConfig(IF prev.role = NoRole
                             THEN [prev EXCEPT !.role = ConstructedRole(prev.functionName)]
                             ELSE prev)]

\* the CLI handler is not running
NoCli == [pc |-> "none"]

NoResult == [op |-> "none", status |-> "none", value |-> Undef]

Blank ==
  [role |-> NoRole, functionName |-> Undef, functionDescription |-> Undef,
   handler |-> Undef, code |-> Undef, runtime |-> Undef, memorySize |-> Undef,
   timeout |-> Undef, environment |-> Undef, tags |-> Undef, hash |-> Undef,
   arn |-> NoArn, zip |-> NoZip]

\* outOfBand: whether the function of the prior instance may have been deleted
\* behind the component's back
InitWith(priors, outOfBand) ==
  /\ this = Blank
  /\ prevInstance \in priors
  /\ fs = InitialFs
  /\ \E deleted \in outOfBand \cup {prevInstance = NoPrev} :
       lambda = [n \in Names |->
                   IF ~deleted /\ prevInstance # NoPrev /\ n = prevInstance.functionName
                   THEN DeployedFn(prevInstance)
                   ELSE NoFn]
  /\ calls = <<>>
  /\ pc = "new"
  /\ result = NoResult
  /\ roleLog = <<>>
  /\ edits = 0
  /\ passes = 0
  /\ cli = NoCli

(* ------------------------------ construct ------------------------------ *)

\* lines 124-150
construct(inputs, files) ==
  [role |-> inputs.role,
   functionName |-> inputs.functionName,
   functionDescription |-> inputs.functionDescription,
   handler |-> inputs.handler,
   code |-> resolve(inputs.code),
   runtime |-> inputs.runtime,
   memorySize |-> inputs.memorySize,
   timeout |-> inputs.timeout,
   environment |-> inputs.environment,
   tags |-> inputs.tags,
   hash |-> hashElement(folderToHash(resolve(inputs.code)), files),
   arn |-> NoArn, zip |-> NoZip]

WithRole(i, r) ==
  [role |-> r, functionName |-> i.functionName,
   functionDescription |-> i.functionDescription, handler |-> i.handler,
   code |-> i.code, runtime |-> i.runtime, memorySize |-> i.memorySize,
   timeout |-> i.timeout, environment |-> i.environment, tags |-> i.tags]

Construct(inputs) ==
  /\ pc = "new"
  /\ this' = construct(inputs, fs)
  /\ pc' = "idle"
  /\ result' = [op |-> "construct", status |-> "returned", value |-> Undef]
  /\ UNCHANGED <<prevInstance, fs, lambda, calls, roleLog, edits, cli, passes>>

\* lines 152-155
Hydrate ==
  /\ pc = "idle"
  /\ this' = [this EXCEPT !.arn = getArn(prevInstance)]
  /\ result' = [op |-> "hydrate", status |-> "returned", value |-> Undef]
  /\ UNCHANGED <<prevInstance, fs, lambda, calls, pc, roleLog, edits, cli, passes>>

\* mutant: shouldDeploy remembers the hash it compared in the prior instance
ShouldDeploy_recordsHash ==
  /\ pc = "idle"
  /\ result' = [op |-> "shouldDeploy"] @@ shouldDeploy(this, prevInstance)
  /\ prevInstance' = IF prevInstance = NoPrev
                     THEN prevInstance
                     ELSE [prevInstance EXCEPT !.hash = this.hash]
  /\ UNCHANGED <<this, fs, lambda, calls, pc, roleLog, edits, cli, passes>>

\* lines 157-181
ShouldDeploy ==
  /\ pc = "idle"
  /\ result' = [op |-> "shouldDeploy"] @@ shouldDeploy(this, prevInstance)
  /\ UNCHANGED <<this, prevInstance, fs, lambda, calls, pc, roleLog, edits, cli, passes>>

(* ------------------------------- define -------------------------------- *)

\* lines 184-194: define() up to the await of context.construct
Define ==
  /\ pc = "idle"
  /\ IF resolve(this.role) # NoRole
     THEN /\ result' = [op |-> "define", status |-> "returned", value |-> "role"]
          /\ UNCHANGED <<pc, roleLog>>
     ELSE /\ Len(roleLog) < MaxRoleConstructs
          /\ roleLog' = Append(roleLog,
               [roleName |-> ExecutionRoleName(resolve(this.functionName)),
                service |-> "lambda.amazonaws.com", outcome |-> "pending"])
          /\ pc' = "define"
          /\ result' = [op |-> "define", status |-> "pending", value |-> Undef]
  /\ UNCHANGED <<this, prevInstance, fs, lambda, calls, edits, cli, passes>>

\* mutant: the constructed role is returned but not stored (line 195 missing)
DefineSettled_noStore(ok) ==
  /\ pc = "define"
  /\ pc' = "idle"
  /\ roleLog' = [roleLog EXCEPT ![Len(roleLog)].outcome = IF ok THEN "ok" ELSE "failed"]
  /\ this' = this
  /\ result' = IF ok
               THEN [op |-> "define", status |-> "returned", value |-> "role"]
               ELSE [op |-> "define", status |-> "threw", value |-> "IdentityResolutionError"]
  /\ UNCHANGED <<prevInstance, fs, lambda, calls, edits, cli, passes>>

\* lines 186-197: context.construct settles; on success the role is stored
DefineSettled(ok) ==
  /\ pc = "define"
  /\ pc' = "idle"
  /\ roleLog' = [roleLog EXCEPT ![Len(roleLog)].outcome = IF ok THEN "ok" ELSE "failed"]
  /\ IF ok
     THEN /\ this' = [this EXCEPT !.role = ConstructedRole(resolve(this.functionName))]
          /\ result' = [op |-> "define", status |-> "returned", value |-> "role"]
     ELSE /\ this' = this
          /\ result' = [op |-> "define", status |-> "threw", value |-> "IdentityResolutionError"]
  /\ UNCHANGED <<prevInstance, fs, lambda, calls, edits, cli, passes>>

\* the code directory is edited on disk (by the developer, between or during operations)
EditCode(d, part) ==
  /\ edits < MaxEdits
  /\ edits' = edits + 1
  /\ fs' = [fs EXCEPT ![d] = IF part = "src"
                             THEN [@ EXCEPT !.src = @ + 1]
                             ELSE [@ EXCEPT !.nm = @ + 1]]
  /\ UNCHANGED <<this, prevInstance, lambda, calls, pc, result, roleLog, cli, passes>>

DecideInputs == {WithRole(i, r) : i \in Variants(MaxDiff), r \in InputRoles}

InitDecide == InitWith(DecidePriors, {FALSE})

NextDecide ==
  \/ \E inputs \in DecideInputs : Construct(inputs)
  \/ ShouldDeploy
  \/ Define
  \/ \E ok \in BOOLEAN : DefineSettled(ok)
  \/ \E d \in Dirs, part \in {"src", "nm"} : EditCode(d, part)

SpecDecide == InitDecide /\ [][NextDecide]_vars

(* -------------------------------- deploy ------------------------------- *)

\* a provider call and, once it has settled, its outcome
Call(op, functionName) ==
  [op |-> op, FunctionName |-> functionName, outcome |-> "pending"]
Settle(log, outcome) == [log EXCEPT ![Len(log)].outcome = outcome]
Outcome(ok) == IF ok THEN "ok" ELSE "failed"

\* mutant: the branch is chosen by the presence of a prior instance alone
createBranch_priorOnly(t, prev) == prev = NoPrev

\* line 228
createBranch(t, prev) == prev = NoPrev \/ t.functionName # prev.functionName

\* lines 204-212
inputDirPath(code) == IF isArray(code) THEN code.value[1] ELSE code.value
shims(code) == IF isArray(code) THEN Tail(code.value) ELSE <<>>

\* lines 222-226 and 204-217: deploy() up to the await of packDir
Deploy ==
  /\ pc = "idle"
  /\ pc' = "pack"
  /\ calls' = <<>>
  /\ result' = [op |-> "deploy", status |-> "pending", value |-> Undef]
  /\ UNCHANGED <<this, prevInstance, fs, lambda, roleLog, edits, cli, passes>>

\* mutant: a packaging failure is swallowed and the branch's first call is
\* issued with the archive the instance already held
PackSettled_swallowFailure(ok) ==
  /\ pc = "pack"
  /\ this' = IF ok
             THEN [this EXCEPT !.zip = packDir(inputDirPath(this.code), shims(this.code), fs)]
             ELSE this
  /\ IF this.role = NoRole
     THEN /\ result' = [op |-> "deploy", status |-> "threw", value |-> "TypeError"]
          /\ pc' = "idle"
          /\ UNCHANGED calls
     ELSE /\ UNCHANGED result
          /\ IF createBranch(this, prevInstance)
             THEN /\ calls' = Append(calls, Call("createFunction", this.functionName))
                  /\ pc' = "createFunction"
             ELSE /\ calls' = Append(calls, Call("updateFunctionCode", this.functionName))
                  /\ pc' = "updateFunctionCode"
  /\ UNCHANGED <<prevInstance, fs, lambda, roleLog, edits, cli, passes>>

\* lines 217-233, 55-72 and 90-109: packDir settles; on success the archive is
\* read, the branch is chosen and its first provider call is issued.  Both
\* createLambda and updateLambda read role.arn before their first call.
PackSettled(ok) ==
  /\ pc = "pack"
  /\ IF ~ok
     THEN /\ result' = [op |-> "deploy", status |-> "threw", value |-> "PackagingError"]
          /\ pc' = "idle"
          /\ UNCHANGED <<this, calls>>
     ELSE /\ this' = [this EXCEPT !.zip = packDir(inputDirPath(this.code), shims(this.code), fs)]
          /\ IF this.role = NoRole
             THEN /\ result' = [op |-> "deploy", status |-> "threw", value |-> "TypeError"]
                  /\ pc' = "idle"
                  /\ UNCHANGED calls
             ELSE /\ UNCHANGED result
                  /\ IF createBranch(this, prevInstance)
                     THEN /\ calls' = Append(calls, Call("createFunction", this.functionName))
                          /\ pc' = "createFunction"
                     ELSE /\ calls' = Append(calls, Call("updateFunctionCode", this.functionName))
                          /\ pc' = "updateFunctionCode"
  /\ UNCHANGED <<prevInstance, fs, lambda, roleLog, edits, cli, passes>>

\* lines 72-73 and 230: createFunction settles; it cannot succeed for a
\* function name that exists
CreateFunctionSettled(ok) ==
  /\ pc = "createFunction"
  /\ ok => lambda[this.functionName] = NoFn
  /\ pc' = "idle"
  /\ IF ok
     THEN /\ lambda' = [lambda EXCEPT ![this.functionName] =
                          [code |-> this.zip, config |-> functionConfig(this)]]
          /\ this' = [this EXCEPT !.arn = FunctionArn(this.functionName)]
          /\ result' = [op |-> "deploy", status |-> "returned", value |-> Undef]
     ELSE /\ UNCHANGED <<lambda, this>>
          /\ result' = [op |-> "deploy", status |-> "threw", value |-> "ProviderCallError"]
  /\ calls' = Settle(calls, Outcome(ok))
  /\ UNCHANGED <<prevInstance, fs, roleLog, edits, cli, passes>>

\* lines 109-110: updateFunctionCode settles; on success
\* updateFunctionConfiguration is issued
UpdateFunctionCodeSettled(ok) ==
  /\ pc = "updateFunctionCode"
  /\ ok => lambda[this.functionName] # NoFn
  /\ IF ok
     THEN /\ lambda' = [lambda EXCEPT ![this.functionName].code = this.zip]
          /\ calls' = Append(Settle(calls, "ok"),
                              Call("updateFunctionConfiguration", this.functionName))
          /\ pc' = "updateFunctionConfiguration"
          /\ UNCHANGED result
     ELSE /\ UNCHANGED lambda
          /\ calls' = Settle(calls, "failed")
          /\ pc' = "idle"
          /\ result' = [op |-> "deploy", status |-> "threw", value |-> "ProviderCallError"]
  /\ UNCHANGED <<this, prevInstance, fs, roleLog, edits, cli, passes>>

\* mutant: a failed updateFunctionConfiguration is issued again
UpdateFunctionConfigurationSettled_retry(ok) ==
  /\ pc = "updateFunctionConfiguration"
  /\ ok => lambda[this.functionName] # NoFn
  /\ IF ok
     THEN /\ lambda' = [lambda EXCEPT ![this.functionName].config = functionConfig(this)]
          /\ this' = [this EXCEPT !.arn = FunctionArn(this.functionName)]
          /\ result' = [op |-> "deploy", status |-> "returned", value |-> Undef]
          /\ calls' = Settle(calls, "ok")
          /\ pc' = "idle"
     ELSE /\ UNCHANGED <<lambda, this, result, pc>>
          /\ calls' = Append(Settle(calls, "failed"),
                              Call("updateFunctionConfiguration", this.functionName))
  /\ UNCHANGED <<prevInstance, fs, roleLog, edits, cli, passes>>

\* lines 110-112 and 233: updateFunctionConfiguration settles
UpdateFunctionConfigurationSettled(ok) ==
  /\ pc = "updateFunctionConfiguration"
  /\ ok => lambda[this.functionName] # NoFn
  /\ pc' = "idle"
  /\ IF ok
     THEN /\ lambda' = [lambda EXCEPT ![this.functionName].config = functionConfig(this)]
          /\ this' = [this EXCEPT !.arn = FunctionArn(this.functionName)]
          /\ result' = [op |-> "deploy", status |-> "returned", value |-> Undef]
     ELSE /\ UNCHANGED <<lambda, this>>
          /\ result' = [op |-> "deploy", status |-> "threw", value |-> "ProviderCallError"]
  /\ calls' = Settle(calls, Outcome(ok))
  /\ UNCHANGED <<prevInstance, fs, roleLog, edits, cli, passes>>

(* -------------------------------- remove ------------------------------- *)

\* the messages of the errors deleteFunction fails with
NotFoundMessage == "Function not found: arn:aws:lambda"
OtherMessage == "Rate exceeded"
DeleteOutcomes == {"ok", NotFoundMessage, OtherMessage}

\* line 248: error.message.includes('Function not found')
includesFunctionNotFound(message) == message \in {NotFoundMessage}

\* mutant: the catch block rethrows every error
removeOutcome_rethrowAll(outcome) ==
  IF outcome = "ok" THEN Returned(Undef) ELSE Threw("Error")

\* lines 245-251: what remove() does with the outcome of deleteLambda
removeOutcome(outcome) ==
  IF outcome = "ok"
  THEN Returned(Undef)
  ELSE IF ~includesFunctionNotFound(outcome) THEN Threw("Error") ELSE Returned(Undef)

\* lines 237-246 and 115-117: remove() up to the await of deleteFunction
Remove ==
  /\ pc = "idle"
  /\ pc' = "deleteFunction"
  /\ calls' = <<Call("deleteFunction", this.functionName)>>
  /\ result' = [op |-> "remove", status |-> "pending", value |-> Undef]
  /\ UNCHANGED <<this, prevInstance, fs, lambda, roleLog, edits, cli, passes>>

\* lines 245-251: deleteFunction settles; it succeeds only for a function that
\* exists and reports not-found only for one that does not
DeleteFunctionSettled(outcome) ==
  /\ pc = "deleteFunction"
  /\ outcome = "ok" => lambda[this.functionName] # NoFn
  /\ outcome = NotFoundMessage => lambda[this.functionName] = NoFn
  /\ pc' = "idle"
  /\ lambda' = IF outcome = "ok" THEN [lambda EXCEPT ![this.functionName] = NoFn] ELSE lambda
  /\ result' = [op |-> "remove"] @@ removeOutcome(outcome)
  /\ calls' = Settle(calls, outcome)
  /\ UNCHANGED <<this, prevInstance, fs, roleLog, edits, cli, passes>>

(* ---------------------------- specifications --------------------------- *)

LifePriors ==
  {NoPrev, Prev(BaseInputs, 1, {}, R1), Prev(BaseInputs, 0, {}, R1)}

LifeInputs ==
  {WithRole(i, r) :
     i \in {BaseInputs,
            [BaseInputs EXCEPT !.functionName = "fn-b"],
            [BaseInputs EXCEPT !.memorySize = 1024],
            [BaseInputs EXCEPT !.code = ArrayCode("dirA", "shim.js")]},
     r \in {NoRole, R1}}

Init == InitWith(LifePriors, BOOLEAN)

Next ==
  \/ \E inputs \in LifeInputs : Construct(inputs)
  \/ Hydrate
  \/ ShouldDeploy
  \/ Define
  \/ \E ok \in BOOLEAN : DefineSettled(ok)
  \/ Deploy
  \/ \E ok \in BOOLEAN : PackSettled(ok)
  \/ \E ok \in BOOLEAN : CreateFunctionSettled(ok)
  \/ \E ok \in BOOLEAN : UpdateFunctionCodeSettled(ok)
  \/ \E ok \in BOOLEAN : UpdateFunctionConfigurationSettled(ok)
  \/ Remove
  \/ \E outcome \in DeleteOutcomes : DeleteFunctionSettled(outcome)
  \/ \E d \in Dirs, part \in {"src", "nm"} : EditCode(d, part)

Spec == Init /\ [][Next]_vars

(* ------------------------ reconciliation passes ------------------------ *)

\* the record of a deployed instance: its normalized fields, arn and role;
\* m are the unset fields the record does not keep
RecordOf(t, m) ==
  [functionName |-> t.functionName,
   functionDescription |-> t.functionDescription,
   handler |-> t.handler, code |-> t.code, runtime |-> t.runtime,
   memorySize |-> t.memorySize, timeout |-> t.timeout,
   environment |-> t.environment, tags |-> t.tags,
   hash |-> t.hash, role |-> t.role, arn |-> t.arn, missing |-> m]

\* the orchestration layer records the instance whose deploy returned as the
\* prior instance of the next pass, which starts with a new instance; a field
\* without a value is recorded with no value or not at all
RecordPrior ==
  /\ pc = "idle"
  /\ result.op = "deploy"
  /\ result.status = "returned"
  /\ passes < MaxPasses
  /\ passes' = passes + 1
  /\ \E m \in SUBSET MayMiss(this) : prevInstance' = RecordOf(this, m)
  /\ this' = Blank
  /\ pc' = "new"
  /\ result' = NoResult
  /\ calls' = <<>>
  /\ UNCHANGED <<fs, lambda, roleLog, edits, cli>>

ConvergeInputs ==
  {WithRole(i, R1) :
     i \in {BaseInputs,
            [BaseInputs EXCEPT !.tags = Undef],
            [BaseInputs EXCEPT !.functionDescription = Undef],
            [BaseInputs EXCEPT !.memorySize = 1024]}}

InitConverge == InitWith({NoPrev}, {FALSE})

NextConverge ==
  \/ \E inputs \in ConvergeInputs : Construct(inputs)
  \/ ShouldDeploy
  \/ Deploy
  \/ \E ok \in BOOLEAN : PackSettled(ok)
  \/ \E ok \in BOOLEAN : CreateFunctionSettled(ok)
  \/ \E ok \in BOOLEAN : UpdateFunctionCodeSettled(ok)
  \/ \E ok \in BOOLEAN : UpdateFunctionConfigurationSettled(ok)
  \/ RecordPrior

SpecConverge == InitConverge /\ [][NextConverge]_vars

(* ------------------------- src/src/cli/index.js ------------------------ *)

\* positional arguments as minimist returns them in args._ ; "" stands for a
\* falsy one
Positionals == {"", "version", "deploy", "remove", "foo"}

\* args._ : the positional arguments of one command line
ArgLists == UNION {[1..n -> Positionals] : n \in 0..MaxArgs}

\* args: the parsed command line (line 6)
CliArgs ==
  [positional : ArgLists, version : BOOLEAN, v : BOOLEAN,
   stage : {Undef, "prod"}, debug : {FALSE}]

\* process.env as far as the handler reads it
CliEnvs ==
  [SERVERLESS_STAGE : {Undef, "dev"},
   SERVERLESS_PLATFORM_STAGE : {Undef},
   SLS_DEBUG : {Undef}]

\* lines 24-29: the command table is one of two modules; each holds the
\* generic run handler and handlers for some command names
CommandTables == {names \cup {"run"} : names \in SUBSET {"deploy", "remove"}}

\* a JavaScript value used as a condition
truthy(v) == v \notin {Undef, ""}

\* args._[i]
positionalAt(args, i) ==
  IF i \in DOMAIN args.positional THEN args.positional[i] ELSE Undef

\* line 32
command(args) ==
  IF truthy(positionalAt(args, 1)) THEN positionalAt(args, 1) ELSE "deploy"

\* lines 33-45: the truthy ones of args._[1] .. args._[4], in order
RECURSIVE paramsFrom(_, _)
paramsFrom(args, i) ==
  IF i > 5
  THEN <<>>
  ELSE (IF truthy(positionalAt(args, i)) THEN <<positionalAt(args, i)>> ELSE <<>>)
         \o paramsFrom(args, i + 1)

params(args) == paramsFrom(args, 2)

\* lines 47-53
config(args, env) ==
  [version |-> args.version,
   v |-> args.v,
   stage |-> args.stage,
   params |-> params(args),
   platformStage |-> IF truthy(env.SERVERLESS_PLATFORM_STAGE)
                     THEN env.SERVERLESS_PLATFORM_STAGE
                     ELSE "prod",
   debug |-> IF truthy(env.SLS_DEBUG) THEN TRUE ELSE args.debug]

\* lines 56-58
stageEnv(args, env) ==
  IF truthy(args.stage) /\ ~truthy(env.SERVERLESS_STAGE)
  THEN [env EXCEPT !.SERVERLESS_STAGE = args.stage]
  ELSE env

\* mutant: only the positional argument is looked at
checkingVersion_positionalOnly(args) == positionalAt(args, 1) = "version"

\* line 62
checkingVersion(args) ==
  positionalAt(args, 1) = "version" \/ args.version \/ args.v

\* one thing the handler did: a method of cli or a handler of the table
\* called with (config, cli) and, for run, the command name
Did(action, extra, outcome) ==
  [action |-> action, extra |-> extra, outcome |-> outcome]

\* the command line, environment and command table of one invocation
CliStart(args, env, table) ==
  [pc |-> "start", args |-> args, env |-> env, commands |-> table,
   config |-> Undef, log |-> <<>>, outcome |-> "pending"]

\* lines 31-73: the handler up to its first await
CliHandler ==
  /\ cli.pc = "start"
  /\ LET args == cli.args
         started == [cli EXCEPT !.config = config(args, cli.env),
                                !.env = stageEnv(args, cli.env)]
     IN  cli' =
           IF checkingVersion(args)
           THEN [started EXCEPT !.log = <<Did("cli.logVersion", <<>>, "ok")>>,
                                !.pc = "done",
                                !.outcome = "returned"]
           ELSE IF command(args) \in cli.commands
           THEN [started EXCEPT !.log = <<Did(command(args), <<>>, "pending")>>,
                                !.pc = "awaiting"]
           ELSE [started EXCEPT !.log = <<Did("run", <<command(args)>>, "pending")>>,
                                !.pc = "awaiting"]
  /\ UNCHANGED <<this, prevInstance, fs, lambda, calls, pc, result, roleLog, edits, passes>>

\* lines 69-77: the awaited handler settles; a rejection is caught and handed
\* to cli.error
CliHandlerSettled(ok) ==
  /\ cli.pc = "awaiting"
  /\ cli' = [cli EXCEPT
               !.log = IF ok
                       THEN Settle(@, "ok")
                       ELSE Append(Settle(@, "failed"), Did("cli.error", <<"e">>, "ok")),
               !.pc = "done",
               !.outcome = "returned"]
  /\ UNCHANGED <<this, prevInstance, fs, lambda, calls, pc, result, roleLog, edits, passes>>

InitCli ==
  /\ this = Blank
  /\ prevInstance = NoPrev
  /\ fs = InitialFs
  /\ lambda = [n \in Names |-> NoFn]
  /\ calls = <<>>
  /\ pc = "new"
  /\ result = NoResult
  /\ roleLog = <<>>
  /\ edits = 0
  /\ passes = 0
  /\ \E args \in CliArgs, env \in CliEnvs, table \in CommandTables :
       cli = CliStart(args, env, table)

NextCli ==
  \/ CliHandler
  \/ \E ok \in BOOLEAN : CliHandlerSettled(ok)

SpecCli == InitCli /\ [][NextCli]_vars

(* ------------------------------- claims -------------------------------- *)

\* shouldDeploy has just returned or thrown for (this, prevInstance)
Decided == result.op = "shouldDeploy"
DecidedAs(v) == Decided /\ result.status = "returned" /\ result.value = v

\* every normalized field is recorded in the prior instance with the value
\* the current spec holds
SameFields(t, prev) ==
  \A k \in ConfigKeys : k \notin prev.missing /\ prev[k] = t[k]

\* both identity references are set and have the same name
SameRoleName(t, prev) ==
  /\ t.role # NoRole
  /\ prev.role # NoRole
  /\ t.role.roleName = prev.role.roleName

\* C1: when no prior instance exists shouldDeploy returns 'deploy', whatever
\* the fields of the spec and whether or not its role is set.
C1_NoPriorDeploys ==
  (Decided /\ prevInstance = NoPrev) => DecidedAs("deploy")

C1_Witness ==
  /\ DecidedAs("deploy")
  /\ prevInstance = NoPrev
  /\ this.role = NoRole
  /\ this.tags = Undef

\* C2: whenever a prior instance exists and its functionName differs from the
\* current one, shouldDeploy returns 'replace', whatever else differs.
C2_NameChangeReplaces ==
  (Decided /\ prevInstance # NoPrev
     /\ prevInstance.functionName # this.functionName)
    => DecidedAs("replace")

\* C3: when the prior instance exists, records every normalized field with the
\* current value and has the same role name, shouldDeploy returns undefined
\* (no decision).
C3_IdenticalNoOp ==
  (Decided /\ prevInstance # NoPrev
     /\ SameFields(this, prevInstance) /\ SameRoleName(this, prevInstance))
    => DecidedAs(Undef)

C3_Witness ==
  /\ DecidedAs(Undef)
  /\ prevInstance # NoPrev
  /\ SameFields(this, prevInstance)
  /\ SameRoleName(this, prevInstance)

\* C4: a difference in the environment alone (normalized fields and role name
\* equal) yields neither 'deploy' nor 'replace': shouldDeploy returns undefined.
C4_EnvironmentIgnored ==
  (Decided /\ prevInstance # NoPrev
     /\ SameFields(this, prevInstance) /\ SameRoleName(this, prevInstance)
     /\ this.environment # prevInstance.environment)
    => (result.status = "returned" /\ result.value \notin {"deploy", "replace"}
        /\ result.value = Undef)

C4_Witness ==
  /\ DecidedAs(Undef)
  /\ prevInstance # NoPrev
  /\ SameFields(this, prevInstance)
  /\ SameRoleName(this, prevInstance)
  /\ this.environment # prevInstance.environment

\* C9: with a prior instance whose normalized fields equal the current ones,
\* shouldDeploy returns 'deploy' when the role names differ and undefined when
\* they are equal, also when the roles' arns differ.
C9_RoleComparedByName ==
  (Decided /\ prevInstance # NoPrev /\ SameFields(this, prevInstance)
     /\ this.role # NoRole /\ prevInstance.role # NoRole)
    => IF this.role.roleName # prevInstance.role.roleName
       THEN DecidedAs("deploy")
       ELSE DecidedAs(Undef)

C9_Witness ==
  /\ DecidedAs(Undef)
  /\ prevInstance # NoPrev
  /\ SameFields(this, prevInstance)
  /\ this.role # NoRole /\ prevInstance.role # NoRole
  /\ this.role.roleName = prevInstance.role.roleName
  /\ this.role.arn # prevInstance.role.arn

\* the normalized fields other than the name in which current and prior differ
Differing(t, prev) ==
  {k \in ConfigKeys \ {"functionName"} : k \in prev.missing \/ prev[k] # t[k]}

\* C10: with a prior instance of the same name and role name, a difference in
\* any normalized field makes shouldDeploy return 'deploy'; the hash compared
\* is the one construct() computed from the code directory as it then was.
C10_FieldDifferenceDeploys ==
  /\ [](  (Decided /\ prevInstance # NoPrev
             /\ prevInstance.functionName = this.functionName
             /\ SameRoleName(this, prevInstance)
             /\ Differing(this, prevInstance) # {})
          => DecidedAs("deploy"))
  /\ [][(pc = "new" /\ pc' = "idle")
          => this'.hash = hashElement(folderToHash(this'.code), fs)]_vars
  /\ [][pc # "new" => this'.hash = this.hash]_vars

C10_Witness ==
  /\ DecidedAs("deploy")
  /\ prevInstance # NoPrev
  /\ SameRoleName(this, prevInstance)
  /\ Differing(this, prevInstance) = {"hash"}
  /\ this.code = prevInstance.code
  /\ this.hash = hashElement(folderToHash(this.code), fs)
  /\ edits > 0

\* the provider calls of the current operation, without their outcomes
Ops(log) == [i \in DOMAIN log |-> <<log[i].op, log[i].FunctionName>>]

\* there is no prior instance, or it has another name than the current spec
CreateCase ==
  prevInstance = NoPrev \/ this.functionName # prevInstance.functionName

\* deploy() has returned or thrown
DeployDone == result.op = "deploy" /\ pc = "idle"

UpdateCalls(n) ==
  <<<<"updateFunctionCode", n>>, <<"updateFunctionConfiguration", n>>>>

\* C5 as stated: every deploy issues exactly one create call in the create
\* branch, and exactly updateFunctionCode then updateFunctionConfiguration in
\* the update branch.
C5_ExactCallsEveryDeploy ==
  DeployDone =>
    IF CreateCase
    THEN Ops(calls) = <<<<"createFunction", this.functionName>>>>
    ELSE Ops(calls) = UpdateCalls(this.functionName)

\* C5 (amended): a deploy whose packaging fails or whose role is undefined
\* issues no provider call; any other deploy issues exactly one createFunction
\* (no update) in the create branch, and in the update branch one
\* updateFunctionCode followed, only once it has succeeded, by one
\* updateFunctionConfiguration for the same function name (no create).
C5_CallsOfDeploy ==
  result.op = "deploy" =>
    LET n == this.functionName
        reached == pc # "pack" /\ result.value # "PackagingError" /\ this.role # NoRole
    IN  /\ ~reached => calls = <<>>
        /\ (reached /\ CreateCase) =>
             Ops(calls) = <<<<"createFunction", n>>>>
        /\ (reached /\ ~CreateCase) =>
             \/ /\ Ops(calls) = <<<<"updateFunctionCode", n>>>>
                /\ calls[1].outcome = (IF pc = "updateFunctionCode" THEN "pending" ELSE "failed")
             \/ /\ Ops(calls) = UpdateCalls(n)
                /\ calls[1].outcome = "ok"
        /\ (DeployDone /\ result.status = "returned") =>
             /\ \A i \in DOMAIN calls : calls[i].outcome = "ok"
             /\ Len(calls) = IF CreateCase THEN 1 ELSE 2

C5_Witness ==
  /\ DeployDone
  /\ result.status = "returned"
  /\ ~CreateCase
  /\ Ops(calls) = UpdateCalls(this.functionName)

\* remove() has returned or thrown
RemoveDone == result.op = "remove" /\ pc = "idle"

\* C6: remove issues exactly one deleteFunction for this.functionName; it
\* returns when the call succeeds or fails with 'Function not found', and
\* throws when the call fails with any other error.
C6_RemoveTolerant ==
  result.op = "remove" =>
    /\ Ops(calls) = <<<<"deleteFunction", this.functionName>>>>
    /\ RemoveDone =>
         /\ calls[1].outcome # "pending"
         /\ calls[1].outcome \in {"ok", NotFoundMessage} => result.status = "returned"
         /\ calls[1].outcome \notin {"ok", NotFoundMessage} => result.status = "threw"
         /\ calls[1].outcome = NotFoundMessage => lambda[this.functionName] = NoFn

C6_Witness ==
  /\ RemoveDone
  /\ calls[1].outcome = NotFoundMessage
  /\ result.status = "returned"
  /\ lambda[this.functionName] = NoFn

\* C7: when updateFunctionCode succeeds and updateFunctionConfiguration fails,
\* deploy throws, the remote function has the new code and the configuration
\* it had, and no further provider call is issued; no provider call is issued
\* twice in one deploy.
C7_NoRollbackNoRetry ==
  /\ []((DeployDone /\ Len(calls) = 2 /\ calls[2].outcome = "failed")
          => /\ result.status = "threw"
             /\ result.value = "ProviderCallError"
             /\ Ops(calls) = UpdateCalls(this.functionName)
             /\ calls[1].outcome = "ok"
             /\ lambda[this.functionName] # NoFn
             /\ lambda[this.functionName].code = this.zip)
  /\ [](result.op = "deploy" =>
          \A i, j \in DOMAIN calls : calls[i].op = calls[j].op => i = j)
  /\ [][(pc = "updateFunctionCode" /\ pc' = "updateFunctionConfiguration")
          => /\ lambda'[this.functionName].code = this.zip
             /\ lambda'[this.functionName].config = lambda[this.functionName].config]_vars
  /\ [][(pc = "updateFunctionConfiguration" /\ calls'[Len(calls)].outcome = "failed")
          => /\ lambda' = lambda
             /\ this' = this
             /\ pc' = "idle"
             /\ Len(calls') = Len(calls)
             /\ result'.status = "threw"]_vars
  /\ [][(DeployDone /\ (calls' # calls \/ lambda' # lambda))
          => (pc = "idle" /\ pc' \in {"pack", "deleteFunction"}
              /\ result'.status = "pending" /\ lambda' = lambda)]_vars

C7_Witness ==
  /\ DeployDone
  /\ result.status = "threw"
  /\ Len(calls) = 2
  /\ calls[1].outcome = "ok"
  /\ calls[2].outcome = "failed"
  /\ lambda[this.functionName].code = this.zip
  /\ lambda[this.functionName].config # functionConfig(this)

\* what C8 says of every call of context.construct, but for their number
RoleConstruction ==
  /\ \A i \in DOMAIN roleLog :
       /\ roleLog[i].roleName = ExecutionRoleName(this.functionName)
       /\ roleLog[i].outcome = "ok" =>
            /\ i = Len(roleLog)
            /\ this.role = ConstructedRole(this.functionName)
       /\ roleLog[i].outcome = "pending" => (i = Len(roleLog) /\ pc = "define")
  /\ pc = "define" =>
       /\ this.role = NoRole
       /\ roleLog # <<>>
       /\ roleLog[Len(roleLog)].outcome = "pending"
  /\ this.role \in InputRoles \ {NoRole} => roleLog = <<>>
  /\ (result.op = "define" /\ result.status = "threw") =>
       /\ result.value = "IdentityResolutionError"
       /\ this.role = NoRole
       /\ roleLog[Len(roleLog)].outcome = "failed"
  /\ (result.op = "define" /\ result.status = "returned") => this.role # NoRole

\* C8 as stated: context.construct is called only when the role is undefined,
\* with the name '<functionName>-execution-role', its role is stored, a failure
\* leaves the role undefined, and it is called at most once for one spec.
C8_ConstructedAtMostOnce == RoleConstruction /\ Len(roleLog) <= 1

\* C8 (amended): as stated, except that context.construct is called at most
\* once successfully: never again once a role is stored, but again by each
\* define() that follows a failed construction.
C8_ConstructedOnlyWhileAbsent ==
  /\ RoleConstruction
  /\ Cardinality({i \in DOMAIN roleLog : roleLog[i].outcome = "ok"}) <= 1

C8_Witness ==
  /\ Len(roleLog) = 2
  /\ roleLog[1].outcome = "failed"
  /\ roleLog[2].outcome = "ok"
  /\ this.role = ConstructedRole(this.functionName)
  /\ result.op = "define"
  /\ result.status = "returned"


\* C11: in a deploy, the first provider call is issued by the step in which
\* pack() completes, with the archive that step packed; a deploy whose pack()
\* fails throws, has issued no call, and leaves the instance (its arn
\* included) and the remote functions as they were.
C11_PackBeforeCalls ==
  /\ [](pc = "pack" => calls = <<>>)
  /\ []((result.op = "deploy" /\ result.status = "threw"
          /\ result.value = "PackagingError") => (pc = "idle" /\ calls = <<>>))
  /\ [][(result'.op = "deploy" /\ calls = <<>> /\ calls' # <<>>)
         => (/\ pc = "pack"
             /\ this'.zip = packDir(inputDirPath(this.code), shims(this.code), fs)
             /\ Len(calls') = 1
             /\ calls'[1].op \in {"createFunction", "updateFunctionCode"})]_vars
  /\ [][(pc = "pack" /\ result'.value = "PackagingError")
         => (/\ result'.status = "threw"
             /\ pc' = "idle"
             /\ this' = this
             /\ calls' = <<>>
             /\ lambda' = lambda)]_vars

C11_Witness ==
  /\ result.op = "deploy"
  /\ result.status = "threw"
  /\ result.value = "PackagingError"
  /\ this.arn # NoArn
  /\ calls = <<>>


\* the call the provider answered last
LastCall == calls[Len(calls)]

\* C12: after a deploy that returned, getId is the arn the provider returned
\* to the last call of the branch (createFunction in the create case,
\* updateFunctionConfiguration otherwise); right after hydrate with a prior
\* instance getId is the prior's arn; and getId changes in no other step than
\* hydrate and the successful settling of one of these two calls, so a failed
\* provider call leaves it as it was.
C12_IdIsReturnedArn ==
  /\ []((DeployDone /\ result.status = "returned")
         => (/\ calls # <<>>
             /\ LastCall.outcome = "ok"
             /\ LastCall.op = IF CreateCase THEN "createFunction"
                                            ELSE "updateFunctionConfiguration"
             /\ getId(this) = FunctionArn(LastCall.FunctionName)))
  /\ []((result.op = "hydrate" /\ prevInstance # NoPrev)
         => getId(this) = prevInstance.arn)
  /\ [][(getId(this') # getId(this))
         => \/ result'.op = "hydrate" /\ result # result'
            \/ /\ pc \in {"createFunction", "updateFunctionConfiguration"}
               /\ result'.status = "returned"]_vars
  /\ [][(pc \in {"createFunction", "updateFunctionCode", "updateFunctionConfiguration"}
          /\ result'.status = "threw")
         => getId(this') = getId(this)]_vars

\* an instance with a prior deployed under a new name: its id is the arn
\* createFunction returned for the new name, not the prior's arn
C12_Witness ==
  /\ DeployDone
  /\ result.status = "returned"
  /\ prevInstance # NoPrev
  /\ CreateCase
  /\ getId(this) = FunctionArn(this.functionName)
  /\ getId(this) # prevInstance.arn


\* a create or updateCode call is in flight: this.zip is being shipped
Shipping == pc \in {"createFunction", "updateFunctionCode"}

\* the fingerprint of the directory contents held by an archive, over the
\* entries construct() hashes
ArchiveFingerprint(zip) == <<zip.dir, zip.src>>

\* C13: at every createFunction or updateFunctionCode call the hash held by
\* the instance is the fingerprint of the directory contents in the archive
\* being shipped, also when the directory was edited after construct().
C13_HashOfShippedArchive ==
  Shipping => this.hash = ArchiveFingerprint(this.zip)

\* the only difference between two states of the disk is under node_modules
OnlyNodeModulesDiffer(f, g) ==
  /\ f # g
  /\ \A d \in Dirs : f[d].src = g[d].src

\* C14: entries under node_modules contribute neither to the hash nor to the
\* archive: a change on disk that touches only such entries changes neither
\* the hash of a code directory nor the archive packed from it.
C14_ExcludedFromHashAndArchive ==
  [][OnlyNodeModulesDiffer(fs, fs')
       => \A d \in Dirs :
            /\ hashElement(d, fs') = hashElement(d, fs)
            /\ packDir(d, <<>>, fs') = packDir(d, <<>>, fs)]_vars


\* C15: when the current name differs from the prior name (shouldDeploy
\* returns 'replace') and the deploy has returned, the function under the
\* prior name has been deleted and the function under the current name has
\* been created, the deleteFunction call preceding the createFunction call.
C15_ReplaceDeletesThenCreates ==
  (/\ DeployDone
   /\ result.status = "returned"
   /\ prevInstance # NoPrev
   /\ prevInstance.functionName # this.functionName)
    => /\ lambda[prevInstance.functionName] = NoFn
       /\ lambda[this.functionName] # NoFn
       /\ \E i, j \in DOMAIN calls :
            /\ i < j
            /\ calls[i].op = "deleteFunction"
            /\ calls[i].FunctionName = prevInstance.functionName
            /\ calls[j].op = "createFunction"
            /\ calls[j].FunctionName = this.functionName


\* C16: no step of construct, hydrate, shouldDeploy, define, deploy or remove
\* changes the prior instance; a shouldDeploy step also leaves the instance,
\* the call log, the remote functions, the role constructions and the disk
\* as they were, and a second shouldDeploy on the same pair gives the result
\* of the first.
C16_PriorReadOnlyDecidePure ==
  /\ [][prevInstance' = prevInstance]_vars
  /\ [][(result'.op = "shouldDeploy" /\ edits' = edits)
         => (/\ pc = "idle" /\ pc' = "idle"
             /\ this' = this
             /\ calls' = calls
             /\ lambda' = lambda
             /\ roleLog' = roleLog
             /\ fs' = fs)]_vars
  /\ [][(Decided /\ result'.op = "shouldDeploy") => result' = result]_vars

\* shouldDeploy was called after a deploy that created the function under a
\* new name, and the prior instance is still one of the initial ones
C16_Witness ==
  /\ Decided
  /\ prevInstance \in LifePriors \ {NoPrev}
  /\ this.arn = FunctionArn(this.functionName)
  /\ this.arn # prevInstance.arn
  /\ lambda[this.functionName] # NoFn


\* the first positional argument of the invocation, Undef when there is none
FirstArg ==
  IF cli.args.positional = <<>> THEN Undef ELSE cli.args.positional[1]

\* the invocation asks for the version
VersionAsked == FirstArg = "version" \/ cli.args.version \/ cli.args.v

\* the command of the invocation: the first positional argument, 'deploy'
\* when there is none (or an empty one)
AskedCommand == IF FirstArg \in {Undef, ""} THEN "deploy" ELSE FirstArg

\* the one handler call the invocation makes
HandlerCall(outcome) ==
  IF AskedCommand \in cli.commands
  THEN Did(AskedCommand, <<>>, outcome)
  ELSE Did("run", <<AskedCommand>>, outcome)

\* C17: an invocation that asks for the version only calls cli.logVersion;
\* any other one makes exactly one handler call, to the handler the table has
\* for the command (the first positional argument, or 'deploy') or else to
\* run with the command name; when that handler throws, the error is handed
\* to cli.error and the CLI handler itself returns.
C17_OneActionPerInvocation ==
  /\ cli.pc = "awaiting"
       => ~VersionAsked /\ cli.log = <<HandlerCall("pending")>>
  /\ cli.pc = "done"
       => /\ cli.outcome = "returned"
          /\ IF VersionAsked
             THEN cli.log = <<Did("cli.logVersion", <<>>, "ok")>>
             ELSE cli.log \in {<<HandlerCall("ok")>>,
                               <<HandlerCall("failed"), Did("cli.error", <<"e">>, "ok")>>}

\* 'foo' has no handler in the table: run was called with 'foo', threw, and
\* the error went to cli.error
C17_Witness ==
  /\ cli.pc = "done"
  /\ FirstArg = "foo"
  /\ cli.log = <<Did("run", <<"foo">>, "failed"), Did("cli.error", <<"e">>, "ok")>>


\* C18: for every pair (this, prevInstance), a spec without a role and a
\* prior instance without a role included, shouldDeploy returns undefined,
\* 'deploy' or 'replace' and does not throw.
C18_DecideIsTotal ==
  Decided => (/\ result.status = "returned"
              /\ result.value \in {Undef, "deploy", "replace"})

\* a normalized field is unset in the spec and not recorded in the prior
UnsetAndAbsent(t, prev, k) == k \in prev.missing /\ t[k] = Undef

\* C19: when some normalized field is unset in the spec and absent from the
\* prior instance, every other normalized field is recorded with the current
\* value and the role names are equal, shouldDeploy returns undefined.
C19_UnsetAndAbsentIsUnchanged ==
  (/\ Decided
   /\ prevInstance # NoPrev
   /\ SameRoleName(this, prevInstance)
   /\ \E k \in ConfigKeys : UnsetAndAbsent(this, prevInstance, k)
   /\ \A k \in ConfigKeys :
        \/ UnsetAndAbsent(this, prevInstance, k)
        \/ k \notin prevInstance.missing /\ prevInstance[k] = this[k])
    => DecidedAs(Undef)


\* the instance was built from the inputs the prior instance was built from,
\* over a code directory with the same hash, with the same role
SameDesired(t, prev) ==
  /\ \A k \in InputFields : t[k] = prev[k]
  /\ t.hash = prev.hash
  /\ t.role = prev.role

\* C20: once a deployed instance has been recorded as the prior instance,
\* shouldDeploy on an instance of the same desired configuration returns
\* undefined, so the pass issues no create or update call.
C20_Converges ==
  (/\ Decided
   /\ passes > 0
   /\ this.role # NoRole
   /\ SameDesired(this, prevInstance))
    => DecidedAs(Undef)

====
